---- MODULE Spec2Model ----
(***************************************************************************)
(* Homie: identity and access control.                                     *)
(*                                                                         *)
(* A model of the store (models.py: Database, UserModel), of the access    *)
(* control configuration (config.py), of the login and logout handlers     *)
(* (app.py) and of the route guards (authentication.py).                   *)
(*                                                                         *)
(* Text values (emails, environment variables) are sequences of one-       *)
(* character strings, so that lower(), strip() and split() are computed    *)
(* and not assumed.                                                        *)
(***************************************************************************)
EXTENDS Integers, Sequences, FiniteSets, TLC

VARIABLES
    env,            \* the process environment (os.getenv) and the mode of
                    \* the store file, fixed for a run
    schema,         \* the store's tables: table name -> sequence of columns
    users,          \* the rows of the users table
    app,            \* the application process: where create_app stands
    access_control, \* the dict load_access_control returned
    supabase,       \* the shared Supabase client created by create_app
    rq,             \* one request in flight per client: the handler's locals
    session,        \* Flask's session of each client (cookie-held)
    now,            \* the clock datetime.now() reads
    logins,         \* the number of POST /login requests started
    last_call,      \* history: the latest completed get_or_create_supabase_user
    linked,         \* history: the (external id, row id) pairs the backfill wrote
    inits           \* history: the completed init_db runs

vars == <<env, schema, users, app, access_control, supabase, rq, session,
          now, logins, last_call, linked, inits>>

-----------------------------------------------------------------------------
(* Bounds *)

\* POST /login requests started in one behaviour of two clients.
MaxLogins == 2

\* POST /login requests started in one behaviour of one client.
MaxCalls == 3

\* Runs of init_db in one behaviour (process starts against the same store).
MaxInitRuns == 2

\* Rows of the users table of a legacy installation.
MaxLegacyRows == 2

\* The clients; Flask serves the requests of both concurrently.
Clients == {"c1", "c2"}

NULL == "NULL"

-----------------------------------------------------------------------------
(* Text: str.lower, str.strip, str.split *)

LowerChar(c) ==
    CASE c = "A" -> "a"
      [] c = "B" -> "b"
      [] c = "X" -> "x"
      [] OTHER -> c

\* str.lower()
Lower(s) == [i \in 1..Len(s) |-> LowerChar(s[i])]

\* str.strip(): leading and trailing blanks removed
RECURSIVE Strip(_)
Strip(s) ==
    IF s = <<>> THEN s
    ELSE IF Head(s) = " " THEN Strip(Tail(s))
    ELSE IF s[Len(s)] = " " THEN Strip(SubSeq(s, 1, Len(s) - 1))
    ELSE s

\* str.split(sep): the pieces between the separators, empty pieces kept
RECURSIVE Split(_, _)
Split(s, sep) ==
    IF \E i \in 1..Len(s) : s[i] = sep
    THEN LET i == CHOOSE k \in 1..Len(s) :
                      s[k] = sep /\ \A j \in 1..(k - 1) : s[j] # sep
         IN  <<SubSeq(s, 1, i - 1)>> \o Split(SubSeq(s, i + 1, Len(s)), sep)
    ELSE <<s>>

\* x in list
In(x, list) == \E i \in 1..Len(list) : list[i] = x

\* [f(e) for e in list]
LowerAll(list) == [i \in 1..Len(list) |-> Lower(list[i])]

StripLowerAll(list) == [i \in 1..Len(list) |-> Lower(Strip(list[i]))]

-----------------------------------------------------------------------------
(* config.py *)

\* load_access_control: both lists are empty unless the variable is set and
\* non-empty; a set variable is split at commas, each piece stripped and
\* lowered.
load_access_control(e) ==
    [ allowed_emails |->
          IF e.ALLOWED_EMAILS # <<>>
          THEN StripLowerAll(Split(e.ALLOWED_EMAILS, ","))
          ELSE <<>>,
      admin_emails |->
          IF e.ADMIN_EMAILS # <<>>
          THEN StripLowerAll(Split(e.ADMIN_EMAILS, ","))
          ELSE <<>> ]

\* get_supabase_config: None unless both the URL and the key are set
get_supabase_config(e) == IF e.SUPABASE THEN "config" ELSE NULL

-----------------------------------------------------------------------------
(* models.py: the schema *)

Col(n, d) == [name |-> n, decl |-> d]

Tables == {"users", "shopping_items", "chores", "expiry_items", "bills",
           "settings"}

\* The CREATE TABLE statements of init_db, in the order it runs them.
CreateStatements ==
    << [ table |-> "users",
         cols  |-> << Col("id", "INTEGER PRIMARY KEY AUTOINCREMENT"),
                      Col("username", "TEXT"),
                      Col("email", "TEXT UNIQUE NOT NULL"),
                      Col("full_name", "TEXT"),
                      Col("is_admin", "BOOLEAN DEFAULT FALSE"),
                      Col("supabase_id", "TEXT UNIQUE NOT NULL"),
                      Col("last_login", "TIMESTAMP"),
                      Col("created_at", "TIMESTAMP DEFAULT CURRENT_TIMESTAMP"),
                      Col("last_activity", "TIMESTAMP") >> ],
       [ table |-> "shopping_items",
         cols  |-> << Col("id", "INTEGER PRIMARY KEY AUTOINCREMENT"),
                      Col("item_name", "TEXT NOT NULL"),
                      Col("completed", "BOOLEAN DEFAULT FALSE"),
                      Col("added_by", "INTEGER NOT NULL"),
                      Col("completed_by", "INTEGER"),
                      Col("created_at", "TIMESTAMP DEFAULT CURRENT_TIMESTAMP"),
                      Col("completed_at", "TIMESTAMP") >> ],
       [ table |-> "chores",
         cols  |-> << Col("id", "INTEGER PRIMARY KEY AUTOINCREMENT"),
                      Col("chore_name", "TEXT NOT NULL"),
                      Col("assigned_to", "INTEGER"),
                      Col("completed", "BOOLEAN DEFAULT FALSE"),
                      Col("added_by", "INTEGER NOT NULL"),
                      Col("completed_by", "INTEGER"),
                      Col("created_at", "TIMESTAMP DEFAULT CURRENT_TIMESTAMP"),
                      Col("completed_at", "TIMESTAMP") >> ],
       [ table |-> "expiry_items",
         cols  |-> << Col("id", "INTEGER PRIMARY KEY AUTOINCREMENT"),
                      Col("item_name", "TEXT NOT NULL"),
                      Col("expiry_date", "DATE NOT NULL"),
                      Col("added_by", "INTEGER NOT NULL"),
                      Col("created_at", "TIMESTAMP DEFAULT CURRENT_TIMESTAMP") >> ],
       [ table |-> "bills",
         cols  |-> << Col("id", "INTEGER PRIMARY KEY AUTOINCREMENT"),
                      Col("bill_name", "TEXT NOT NULL"),
                      Col("amount", "DECIMAL(10,2) NOT NULL"),
                      Col("due_day", "INTEGER NOT NULL"),
                      Col("added_by", "INTEGER NOT NULL"),
                      Col("created_at", "TIMESTAMP DEFAULT CURRENT_TIMESTAMP") >> ],
       [ table |-> "settings",
         cols  |-> << Col("key", "TEXT PRIMARY KEY"),
                      Col("value", "TEXT NOT NULL") >> ] >>

\* The list `migrations` of _run_migrations, in order.
Migrations ==
    << [ table |-> "shopping_items",
         col   |-> Col("completed", "BOOLEAN DEFAULT FALSE") ],
       [ table |-> "shopping_items",
         col   |-> Col("completed_by", "INTEGER") ],
       [ table |-> "shopping_items",
         col   |-> Col("completed_at", "TIMESTAMP") ],
       [ table |-> "users",
         col   |-> Col("supabase_id", "TEXT") ] >>

\* A store file that holds no table: a table maps to the empty sequence.
EmptySchema == [t \in Tables |-> <<>>]

TableExists(sch, t) == sch[t] # <<>>

HasColumn(sch, t, n) == \E i \in 1..Len(sch[t]) : sch[t][i].name = n

\* CREATE TABLE t (cols), as the statement behaves without IF NOT EXISTS:
\* SQLite refuses a table that exists.
CreateTable(sch, st) ==
    IF TableExists(sch, st.table)
    THEN [schema |-> sch, error |-> "already exists"]
    ELSE [schema |-> [sch EXCEPT ![st.table] = st.cols], error |-> NULL]

\* CREATE TABLE IF NOT EXISTS t (cols): nothing when the table exists
CreateTableIfNotExists(sch, st) ==
    IF TableExists(sch, st.table)
    THEN [schema |-> sch, error |-> NULL]
    ELSE [schema |-> [sch EXCEPT ![st.table] = st.cols], error |-> NULL]

\* The six CREATE statements of init_db, run in order; the first error (an
\* sqlite3.OperationalError no handler of init_db catches) ends the run.
RECURSIVE CreateAll(_, _)
CreateAll(sch, i) ==
    IF i > Len(CreateStatements) THEN [schema |-> sch, error |-> NULL]
    ELSE LET r == CreateTableIfNotExists(sch, CreateStatements[i])
         IN  IF r.error # NULL THEN r ELSE CreateAll(r.schema, i + 1)

\* ALTER TABLE t ADD COLUMN col: SQLite refuses a column name the table has
\* ("duplicate column name") and a table that does not exist ("no such
\* table"); otherwise the column is appended.
AlterTableAddColumn(sch, m) ==
    IF ~TableExists(sch, m.table)
    THEN [schema |-> sch, error |-> "no such table"]
    ELSE IF HasColumn(sch, m.table, m.col.name)
    THEN [schema |-> sch, error |-> "duplicate column name"]
    ELSE [schema |-> [sch EXCEPT ![m.table] = Append(@, m.col)],
          error  |-> NULL]

\* The handler of _run_migrations: what it logs for one migration.
MigrationLog(error) ==
    IF error = NULL THEN "applied"
    ELSE IF error \in {"duplicate column name", "already exists"}
    THEN "already applied"
    ELSE "failed"

\* conn.execute(statement) on the store file: `r` is what the statement does
\* to a writable store.  A read-only file refuses every statement that would
\* write; a statement that changes nothing (CREATE TABLE IF NOT EXISTS of a
\* table that exists) and an error found while the statement is prepared are
\* as on a writable file.
Execute(readonly, sch, r) ==
    IF readonly /\ r.error = NULL /\ r.schema # sch
    THEN [schema |-> sch, error |-> "attempt to write a readonly database"]
    ELSE r

\* An except clause that catches the already-applied messages alone.
OperationalErrorAlreadyApplied(error) ==
    error \in {"duplicate column name", "already exists"}

\* except sqlite3.OperationalError: the errors the clause catches.  SQLite's
\* SQLITE_ERROR and SQLITE_READONLY both surface as OperationalError.
OperationalError(error) ==
    error \in {"duplicate column name", "already exists", "no such table",
               "attempt to write a readonly database"}

\* The schema init_db leaves on an empty store.
FreshSchema == CreateAll(EmptySchema, 1).schema

\* The columns of `cols` whose names are not in `names`.
RECURSIVE Without(_, _)
Without(cols, names) ==
    IF cols = <<>> THEN <<>>
    ELSE IF Head(cols).name \in names THEN Without(Tail(cols), names)
    ELSE <<Head(cols)>> \o Without(Tail(cols), names)

\* A legacy installation: the tables exist without the columns the
\* migrations add.
LegacySchema ==
    [t \in Tables |->
        Without(FreshSchema[t],
                {Migrations[i].col.name :
                    i \in {j \in 1..Len(Migrations) : Migrations[j].table = t}})]

-----------------------------------------------------------------------------
(* Python values *)

\* A dict is a sequence of <<key, value>> pairs with distinct keys.
Has(d, k) == \E i \in 1..Len(d) : d[i][1] = k

\* d[k]
Item(d, k) == d[CHOOSE i \in 1..Len(d) : d[i][1] = k][2]

\* d.get(k, default)
Get(d, k, default) == IF Has(d, k) THEN Item(d, k) ELSE default

\* What an sqlite3.Connection offers: conn.lastrowid is not among it (the
\* attribute belongs to the cursor that execute() returns).
ConnectionAttributes ==
    {"execute", "commit", "rollback", "close", "cursor", "row_factory",
     "isolation_level", "in_transaction", "total_changes"}

\* database.UserModel, which login instantiates without arguments: the
\* reconciliation of models.UserModel over the store's Database, its record
\* handed on as a mapping with field access by name.
LocalUserRecord(u) ==
    << <<"id", u.id>>, <<"username", u.username>>, <<"email", u.email>>,
       <<"full_name", u.full_name>>, <<"is_admin", u.is_admin>>,
       <<"supabase_id", u.supabase_id>>, <<"last_login", u.last_login>>,
       <<"created_at", u.created_at>> >>

-----------------------------------------------------------------------------
(* models.py: the users table *)

\* fetchone() on an empty result is None.
NoRow == [id |-> 0]

Found(u) == u.id # 0

\* fetchone(): the first row of the result; SQLite scans in rowid order.
fetchone(rows) ==
    IF rows = {} THEN NoRow
    ELSE CHOOSE u \in rows : \A q \in rows : u.id <= q.id

\* SELECT * FROM users WHERE supabase_id = ?   (NULL equals nothing)
SelectBySupabaseId(tbl, sid) ==
    fetchone({u \in tbl : u.supabase_id # NULL /\ u.supabase_id = sid})

\* SELECT * FROM users WHERE email = ?   (BINARY collation: case matters)
SelectByEmail(tbl, email) == fetchone({u \in tbl : u.email = email})

\* SELECT * FROM users WHERE id = ?
SelectById(tbl, id) == fetchone({u \in tbl : u.id = id})

\* Whether the users table declares column n UNIQUE.
IsUnique(sch, n) ==
    \E i \in 1..Len(sch["users"]) :
        /\ sch["users"][i].name = n
        /\ sch["users"][i].decl \in {"TEXT UNIQUE NOT NULL"}

\* The UPDATE without its WHERE clause: every row is written.
UpdateSupabaseIdEveryRow(sch, tbl, sid, id) ==
    IF IsUnique(sch, "supabase_id") /\ Cardinality(tbl) > 1
    THEN [users |-> tbl, error |-> "IntegrityError"]
    ELSE [users |-> {[u EXCEPT !.supabase_id = sid] : u \in tbl},
          error |-> NULL]

\* UPDATE users SET supabase_id = ? WHERE id = ?
UpdateSupabaseId(sch, tbl, sid, id) ==
    IF IsUnique(sch, "supabase_id")
       /\ \E u \in tbl : u.id # id /\ u.supabase_id = sid
    THEN [users |-> tbl, error |-> "IntegrityError"]
    ELSE [users |-> {IF u.id = id THEN [u EXCEPT !.supabase_id = sid] ELSE u :
                        u \in tbl},
          error |-> NULL]

\* The UPDATE without is_admin in its SET list: the stored flag stays.
UpdateLoginKeepAdmin(tbl, t, full_name, is_admin, id) ==
    {IF u.id = id
     THEN [u EXCEPT !.last_login = t, !.full_name = full_name]
     ELSE u : u \in tbl}

\* UPDATE users SET last_login = ?, full_name = ?, is_admin = ? WHERE id = ?
UpdateLogin(tbl, t, full_name, is_admin, id) ==
    {IF u.id = id
     THEN [u EXCEPT !.last_login = t, !.full_name = full_name,
                    !.is_admin = is_admin]
     ELSE u : u \in tbl}

\* AUTOINCREMENT: one more than the largest id
NextId(tbl) ==
    IF tbl = {} THEN 1
    ELSE 1 + (CHOOSE n \in {u.id : u \in tbl} : \A u \in tbl : u.id <= n)

\* INSERT INTO users (username, email, full_name, supabase_id, is_admin,
\*                    last_login, created_at) VALUES (...)
InsertUser(sch, tbl, username, email, full_name, sid, is_admin, t) ==
    IF \/ \E u \in tbl : u.email = email
       \/ IsUnique(sch, "supabase_id") /\ \E u \in tbl : u.supabase_id = sid
    THEN [users |-> tbl, error |-> "IntegrityError", lastrowid |-> 0]
    ELSE [users |-> tbl \cup
                    {[id |-> NextId(tbl), username |-> username,
                      email |-> email, full_name |-> full_name,
                      is_admin |-> is_admin, supabase_id |-> sid,
                      last_login |-> t, created_at |-> t]},
          error |-> NULL, lastrowid |-> NextId(tbl)]

-----------------------------------------------------------------------------
(* models.py: what get_or_create_supabase_user derives from the identity *)

\* email.split("@")[0]
LocalPart(email) == Split(email, "@")[1]

\* meta = supabase_user.user_metadata or {}
\* full_name = meta.get("full_name", meta.get("name", email.split("@")[0]))
FullNameOf(su) ==
    Get(su.user_metadata, "full_name",
        Get(su.user_metadata, "name", LocalPart(su.email)))

\* username = meta.get("username", email.split("@")[0])
UsernameOf(su) == Get(su.user_metadata, "username", LocalPart(su.email))

\* is_admin = email.lower() in access_control.get("admin_emails", [])
IsAdmin(email, ac) == In(Lower(email), ac.admin_emails)

-----------------------------------------------------------------------------
(* app.py: the access-control gate of login *)

\* allowed_emails and email.lower() not in [e.lower() for e in allowed_emails]
NotInAllowed(email, ac) ==
    /\ ac.allowed_emails # <<>>
    /\ ~In(Lower(email), LowerAll(ac.allowed_emails))

\* The gate with the test of the admin list the wrong way round: `in` where
\* the code has `not in`.
GateDeniesAdmins(email, ac) ==
    /\ NotInAllowed(email, ac)
    /\ In(Lower(email), LowerAll(ac.admin_emails))

\* The gate denies an email outside a non-empty allowed list unless it is in
\* the admin list.
GateDenies(email, ac) ==
    /\ NotInAllowed(email, ac)
    /\ ~In(Lower(email), LowerAll(ac.admin_emails))

-----------------------------------------------------------------------------
(* The inputs *)

\* The addresses: "a@x", its upper-case spelling "A@x", and "b@x".
Emails == { <<"a", "@", "x">>, <<"A", "@", "x">>, <<"b", "@", "x">> }

\* The external ids the provider issues.
ExternalIds == {"u1", "u2"}

\* user_metadata, which the provider keeps with the user: absent or empty
\* for "u1", all three keys for "u2".
Metadata(id) ==
    IF id = "u1" THEN <<>>
    ELSE << <<"full_name", <<"F">> >>, <<"name", <<"N">> >>,
            <<"username", <<"f">> >> >>

\* ADMIN_EMAILS: unset, or " A@x".
AdminEnvs == { <<>>, <<" ", "A", "@", "x">> }

\* ALLOWED_EMAILS: unset, or "b@x".
AllowedEnvs == { <<>>, <<"b", "@", "x">> }

\* A row of a legacy installation: no external-identity reference.
LegacyRow(i, e, adm) ==
    [id |-> i, username |-> LocalPart(e), email |-> e, full_name |-> <<"o">>,
     is_admin |-> adm, supabase_id |-> NULL, last_login |-> 0,
     created_at |-> 0]

\* The users tables of a legacy installation: at most MaxLegacyRows rows,
\* ids 1..n, emails distinct (email is UNIQUE).
LegacyUsers ==
    UNION { { {LegacyRow(i, f[i][1], f[i][2]) : i \in 1..n} :
                f \in {g \in [1..n -> Emails \X BOOLEAN] :
                          \A i, j \in 1..n : i # j => g[i][1] # g[j][1]} } :
            n \in 0..MaxLegacyRows }

-----------------------------------------------------------------------------
(* The state of a request *)

\* res.user when the provider returned none
NoUser == [id |-> NULL, email |-> <<>>, user_metadata |-> <<>>]

\* last_call before any call.  n counts the calls that are over; returned is
\* the row the call returned, NoRow when it raised.
NoCall == [n |-> 0, id |-> NULL, email |-> <<>>, returned |-> NoRow,
           rows |-> 0, in_sequence |-> FALSE]

IdleRequest ==
    [pc               |-> "idle",
     route            |-> NULL,     \* login, dashboard or logout
     res_user         |-> NoUser,   \* res.user
     user             |-> NoRow,    \* get_or_create_supabase_user's `user`
     conn             |-> "none",   \* its connection: none, open, closed, dropped
     gate             |-> "none",   \* the gate's verdict: none, allowed, denied
     signed_out       |-> FALSE,    \* login called supabase.auth.sign_out()
     ran              |-> NULL,     \* the guarded view function that ran
     lookup           |-> NULL,     \* what the feature lookup came to
     select_by_email  |-> FALSE,    \* the email fallback SELECT ran
     linked           |-> FALSE,    \* the backfill UPDATE ran
     began_after      |-> 0,        \* calls that were over when this one began
     linked_before    |-> 0,        \* the row its external id was linked to
                                    \* before it began, 0 when none
     exception        |-> NULL,     \* the exception login caught
     flash            |-> NULL,
     response         |-> NULL]

InCall(r) ==
    rq[r].pc \in {"select_by_supabase_id", "select_by_email", "link",
                  "reselect", "update", "insert"}

-----------------------------------------------------------------------------
(* Init *)

\* The module-level `supabase` before create_app, and what the provider
\* holds: `client` says whether create_app made a client, `current` names
\* the client of the application whose sign-in the shared Supabase client
\* holds the session of, `sessions` the state at the provider of the session
\* each one's last sign-in opened (none, live, revoked).
NoClient ==
    [client |-> FALSE, current |-> NULL,
     sessions |-> [r \in Clients |-> "none"]]

Init ==
    /\ env \in [ADMIN_EMAILS : AdminEnvs, ALLOWED_EMAILS : AllowedEnvs,
                SUPABASE : BOOLEAN, READONLY : {FALSE}]
    /\ \/ schema = EmptySchema /\ users = {}
       \/ schema = LegacySchema /\ users \in LegacyUsers
    /\ app = [pc |-> "init_db", mig |-> 1, log |-> <<>>, workers |-> 0]
    /\ access_control = [allowed_emails |-> <<>>, admin_emails |-> <<>>]
    /\ supabase = NoClient
    /\ rq = [r \in Clients |-> IdleRequest]
    /\ session = [r \in Clients |-> <<>>]
    /\ now = 1
    /\ logins = 0
    /\ last_call = NoCall
    /\ linked = {}
    /\ inits = <<>>

-----------------------------------------------------------------------------
(* app.py, models.py: startup *)

\* init_db, lines 26-110: the CREATE TABLE statements.  An error here is
\* caught nowhere: create_app raises and the process does not start.
InitDbCreate ==
    /\ app.pc = "init_db"
    /\ LET r == Execute(env.READONLY, schema, CreateAll(schema, 1)) IN
        /\ schema' = r.schema
        /\ IF r.error # NULL
           THEN /\ app' = [app EXCEPT !.pc = "crashed"]
                /\ inits' = Append(inits, [schema |-> r.schema, log |-> <<>>,
                                           error |-> r.error])
           ELSE /\ app' = [app EXCEPT !.pc = "run_migrations", !.mig = 1,
                                      !.log = <<>>]
                /\ inits' = inits
    /\ UNCHANGED <<env, users, access_control, supabase, rq, session, now,
                   logins, last_call, linked>>

\* _run_migrations, lines 140-151: one turn of the loop.  Every
\* sqlite3.OperationalError is caught and logged, and the loop goes on; an
\* error the clause does not catch leaves init_db and create_app.
RunMigration ==
    /\ app.pc = "run_migrations"
    /\ app.mig <= Len(Migrations)
    /\ LET r == Execute(env.READONLY, schema,
                        AlterTableAddColumn(schema, Migrations[app.mig]))
       IN
        /\ schema' = r.schema
        /\ IF r.error = NULL \/ OperationalError(r.error)
           THEN /\ app' = [app EXCEPT !.mig = @ + 1,
                                      !.log = Append(@, MigrationLog(r.error))]
                /\ inits' = inits
           ELSE /\ app' = [app EXCEPT !.pc = "crashed"]
                /\ inits' = Append(inits, [schema |-> r.schema,
                                           log |-> app.log,
                                           error |-> r.error])
    /\ UNCHANGED <<env, users, access_control, supabase, rq, session, now,
                   logins, last_call, linked>>

\* init_db, lines 115-116: commit and close once the loop is over.
InitDbCommit ==
    /\ app.pc = "run_migrations"
    /\ app.mig > Len(Migrations)
    /\ app' = [app EXCEPT !.pc = "create_app"]
    /\ inits' = Append(inits, [schema |-> schema, log |-> app.log,
                               error |-> NULL])
    /\ UNCHANGED <<env, schema, users, access_control, supabase, rq, session,
                   now, logins, last_call, linked>>

\* create_app, lines 71-87: the Supabase client when it is configured, and
\* the access-control lists; from here on the process serves requests.  A
\* further worker builds a client and lists of its own, and the ones of the
\* worker that serves stay as they are.
CreateApp ==
    /\ app.pc = "create_app"
    /\ IF app.workers = 0
       THEN /\ supabase' = [supabase EXCEPT
                               !.client = get_supabase_config(env) # NULL,
                               !.current = NULL]
            /\ access_control' = load_access_control(env)
       ELSE UNCHANGED <<supabase, access_control>>
    /\ app' = [app EXCEPT !.pc = "serving"]
    /\ UNCHANGED <<env, schema, users, rq, session, now, logins, last_call,
                   linked, inits>>

\* The process is started again against the same store: create_app runs
\* init_db again.  Requests of the old process are over.
Restart ==
    /\ app.pc = "serving"
    /\ \A r \in Clients : rq[r].pc = "idle"
    /\ Len(inits) < MaxInitRuns
    /\ app' = [pc |-> "init_db", mig |-> 1, log |-> <<>>, workers |-> 0]
    /\ supabase' = [supabase EXCEPT !.client = FALSE, !.current = NULL]
    /\ access_control' = [allowed_emails |-> <<>>, admin_emails |-> <<>>]
    /\ UNCHANGED <<env, schema, users, rq, session, now, logins, last_call,
                   linked, inits>>

\* One more worker process is started against the same store while the
\* first one serves: importing app.py runs create_app, and with it init_db,
\* in every process.  Nothing makes it wait for the requests of the first.
StartWorker ==
    /\ app.pc = "serving"
    /\ Len(inits) < MaxInitRuns
    /\ app' = [pc |-> "init_db", mig |-> 1, log |-> <<>>,
               workers |-> app.workers + 1]
    /\ UNCHANGED <<env, schema, users, access_control, supabase, rq, session,
                   now, logins, last_call, linked, inits>>

\* Some process serves requests: the one that was started last, or a worker
\* started before it.
Serving == app.pc = "serving" \/ app.workers > 0

-----------------------------------------------------------------------------
(* app.py: login *)

\* How a request ends: the handler's locals are gone, what it did stays
\* until the response is out.
Ended(q, exc, flash, response) ==
    [IdleRequest EXCEPT
        !.pc = "done",
        !.route = q.route,
        !.gate = q.gate,
        !.signed_out = q.signed_out,
        !.ran = q.ran,
        !.lookup = q.lookup,
        !.conn = q.conn,
        !.exception = exc,
        !.flash = flash,
        !.response = response]

\* login without the except clause: the exception leaves the handler and
\* Flask answers with status 500.
Propagated(q, exc) ==
    Ended([q EXCEPT !.conn = IF @ = "open" THEN "dropped" ELSE @], exc,
          NULL, "500 Internal Server Error")

\* The except clause of login, lines 211-215: the exception is logged, the
\* generic message flashed and the login page rendered.  A connection that
\* get_or_create_supabase_user had open was never closed by it.
Caught(q, exc) ==
    Ended([q EXCEPT !.conn = IF @ = "open" THEN "dropped" ELSE @], exc,
          "Invalid email or password", "login.html")

\* The record of a get_or_create_supabase_user call that is over: what it
\* was called with, the row it returned (NoRow when it raised), the number
\* of rows of the table, and whether it ran in sequence after the call
\* before it (it began after that one was over, and no other call is
\* running).
Completed(r, returned, tbl) ==
    [n |-> last_call.n + 1,
     id |-> rq[r].res_user.id, email |-> rq[r].res_user.email,
     returned |-> returned, rows |-> Cardinality(tbl),
     in_sequence |-> /\ rq[r].began_after = last_call.n
                     /\ \A q \in Clients \ {r} : ~InCall(q)]

\* sign_out() of the shared Supabase client: it ends the session the client
\* holds at that moment, whoever signed in for it, and holds none afterwards.
SignOut(sb) ==
    [sb EXCEPT !.current = NULL,
               !.sessions = IF sb.current = NULL THEN @
                            ELSE [@ EXCEPT ![sb.current] = "revoked"]]

\* The artifact with its id read under a key the record does not have:
\* get() answers None, written 0 as for a row that does not exist.
ArtifactWrongKey(local_user, token) ==
    << <<"id", Get(local_user, "user_id", 0)>>,
       <<"supabase_id", Get(local_user, "supabase_id",
                            Get(local_user, "oidc_sub", NULL))>>,
       <<"username", Item(local_user, "username")>>,
       <<"email", Item(local_user, "email")>>,
       <<"full_name", Item(local_user, "full_name")>>,
       <<"is_admin", Item(local_user, "is_admin")>>,
       <<"access_token", token>> >>

\* session["user"], lines 196-206
Artifact(local_user, token) ==
    << <<"id", Item(local_user, "id")>>,
       <<"supabase_id", Get(local_user, "supabase_id",
                            Get(local_user, "oidc_sub", NULL))>>,
       <<"username", Item(local_user, "username")>>,
       <<"email", Item(local_user, "email")>>,
       <<"full_name", Item(local_user, "full_name")>>,
       <<"is_admin", Item(local_user, "is_admin")>>,
       <<"access_token", token>> >>

\* Lines 195-209, after get_or_create_supabase_user returned: the session
\* artifact is built from the record and the client sent to the dashboard.
LoginSetSession(q, u) ==
    [rq |-> Ended(q, NULL, "Welcome back", "redirect dashboard"),
     session |-> << <<"user", Artifact(LocalUserRecord(u), "token")>> >>]

\* POST /login, lines 154-193, for a client without a session.  Without a
\* Supabase client the request ends at once.  Otherwise
\* supabase.auth.sign_in_with_password raises (credentials refused, provider
\* unreachable), returns no user, or returns the user the provider holds for
\* the address of the form, whose spelling of it may differ in case; the
\* shared client then holds that user's session.  With a user, the gate is
\* evaluated on the address of the form; when it allows,
\* get_or_create_supabase_user begins and opens its connection.
LoginPost(r, max) ==
    /\ Serving
    /\ rq[r].pc = "idle"
    /\ ~Has(session[r], "user")
    /\ logins < max
    /\ logins' = logins + 1
    /\ IF ~supabase.client
       THEN /\ rq' = [rq EXCEPT ![r] =
                        Ended([@ EXCEPT !.route = "login"], NULL,
                              "Authentication service unavailable",
                              "login.html")]
            /\ UNCHANGED supabase
       ELSE \E email \in Emails :
            \/ /\ rq' = [rq EXCEPT ![r] =
                            Caught([@ EXCEPT !.route = "login"],
                                   "AuthApiError")]
               /\ UNCHANGED supabase
            \/ /\ rq' = [rq EXCEPT ![r] =
                            Ended([@ EXCEPT !.route = "login"], NULL, NULL,
                                  "login.html")]
               /\ UNCHANGED supabase
            \/ \E id \in ExternalIds, e \in Emails :
                 /\ Lower(e) = Lower(email)
                 /\ supabase' = [supabase EXCEPT !.current = r,
                                                 !.sessions[r] = "live"]
                 /\ rq' = [rq EXCEPT ![r] =
                      [IdleRequest EXCEPT
                         !.route = "login",
                         !.res_user = [id |-> id, email |-> e,
                                       user_metadata |-> Metadata(id)],
                         !.gate = IF GateDenies(email, access_control)
                                  THEN "denied" ELSE "allowed",
                         !.pc = IF GateDenies(email, access_control)
                                THEN "sign_out" ELSE "select_by_supabase_id",
                         !.conn = IF GateDenies(email, access_control)
                                  THEN "none" ELSE "open",
                         !.began_after = last_call.n,
                         !.linked_before =
                             IF \E p \in linked : p[1] = id
                             THEN (CHOOSE p \in linked : p[1] = id)[2]
                             ELSE 0]]
    /\ UNCHANGED <<env, schema, users, app, access_control, session, now,
                   last_call, linked, inits>>

\* Lines 181-186: the denial.  supabase.auth.sign_out() takes no argument: it
\* ends the session the shared client holds at that moment, if any.  When it
\* raises, the except clause takes over.
LoginDenied(r) ==
    /\ rq[r].pc = "sign_out"
    /\ \/ /\ rq' = [rq EXCEPT ![r] =
                      Caught([@ EXCEPT !.signed_out = TRUE], "AuthError")]
          /\ UNCHANGED supabase
       \/ /\ supabase' = SignOut(supabase)
          /\ rq' = [rq EXCEPT ![r] =
                       Ended([@ EXCEPT !.signed_out = TRUE], NULL,
                             "Access denied. You are not authorized.",
                             "login.html")]
    /\ UNCHANGED <<env, schema, users, app, access_control, session, now,
                   logins, last_call, linked, inits>>

\* The response is sent and the request is over.
EndRequest(r) ==
    /\ rq[r].pc = "done"
    /\ rq' = [rq EXCEPT ![r] = IdleRequest]
    /\ UNCHANGED <<env, schema, users, app, access_control, supabase, session,
                   now, logins, last_call, linked, inits>>

-----------------------------------------------------------------------------
(* models.py: get_or_create_supabase_user, statement by statement *)

\* Lines 174-177: the primary lookup.
SelectUserBySupabaseId(r) ==
    /\ rq[r].pc = "select_by_supabase_id"
    /\ IF ~HasColumn(schema, "users", "supabase_id")
       THEN /\ rq' = [rq EXCEPT ![r] = Caught(@, "OperationalError")]
            /\ last_call' = Completed(r, NoRow, users)
       ELSE /\ LET u == SelectBySupabaseId(users, rq[r].res_user.id) IN
                 rq' = [rq EXCEPT ![r] =
                          [@ EXCEPT !.user = u,
                                    !.pc = IF Found(u) THEN "update"
                                           ELSE "select_by_email"]]
            /\ UNCHANGED last_call
    /\ UNCHANGED <<env, schema, users, app, access_control, supabase, session,
                   now, logins, linked, inits>>

\* Lines 180-183: the fallback lookup by email.
SelectUserByEmail(r) ==
    /\ rq[r].pc = "select_by_email"
    /\ LET u == SelectByEmail(users, rq[r].res_user.email) IN
         rq' = [rq EXCEPT ![r] =
                  [@ EXCEPT !.user = u, !.select_by_email = TRUE,
                            !.pc = IF Found(u) THEN "link" ELSE "insert"]]
    /\ UNCHANGED <<env, schema, users, app, access_control, supabase, session,
                   now, logins, last_call, linked, inits>>

\* Lines 185-190: the row found by email is linked to the external id, and
\* the change committed.
LinkSupabaseId(r) ==
    /\ rq[r].pc = "link"
    /\ LET w == UpdateSupabaseId(schema, users, rq[r].res_user.id,
                                 rq[r].user.id) IN
         IF w.error # NULL
         THEN /\ rq' = [rq EXCEPT ![r] = Caught(@, w.error)]
              /\ last_call' = Completed(r, NoRow, users)
              /\ UNCHANGED <<users, linked>>
         ELSE /\ users' = w.users
              /\ linked' = linked \cup {<<rq[r].res_user.id, rq[r].user.id>>}
              /\ rq' = [rq EXCEPT ![r] = [@ EXCEPT !.linked = TRUE,
                                                   !.pc = "reselect"]]
              /\ UNCHANGED last_call
    /\ UNCHANGED <<env, schema, app, access_control, supabase, session, now,
                   logins, inits>>

\* Lines 191-195: the linked row is read again.
ReselectUser(r) ==
    /\ rq[r].pc = "reselect"
    /\ LET u == SelectById(users, rq[r].user.id) IN
         rq' = [rq EXCEPT ![r] =
                  [@ EXCEPT !.user = u,
                            !.pc = IF Found(u) THEN "update" ELSE "insert"]]
    /\ UNCHANGED <<env, schema, users, app, access_control, supabase, session,
                   now, logins, last_call, linked, inits>>

\* Lines 195-205 and 232-233: the row is updated, the change committed, the
\* connection closed, and `user`, the row as it was read before the UPDATE,
\* returned to login, which goes on to the session.
UpdateUser(r) ==
    /\ rq[r].pc = "update"
    /\ users' = UpdateLogin(users, now, FullNameOf(rq[r].res_user),
                            IsAdmin(rq[r].res_user.email, access_control),
                            rq[r].user.id)
    /\ now' = now + 1
    /\ last_call' = Completed(r, rq[r].user, users')
    /\ LET out == LoginSetSession([rq[r] EXCEPT !.conn = "closed"],
                                  rq[r].user)
       IN  /\ rq' = [rq EXCEPT ![r] = out.rq]
           /\ session' = [session EXCEPT ![r] = out.session]
    /\ UNCHANGED <<env, schema, app, access_control, supabase, logins, linked,
                   inits>>

\* Lines 206-233: the INSERT, then conn.lastrowid, the commit, the SELECT of
\* the new row and the return.  An exception before the commit leaves the
\* connection behind with its transaction open; the row is rolled back when
\* the connection is released.
InsertNewUser(r) ==
    /\ rq[r].pc = "insert"
    /\ now' = now + 1
    /\ LET su  == rq[r].res_user
           ins == InsertUser(schema, users, UsernameOf(su), su.email,
                             FullNameOf(su), su.id,
                             IsAdmin(su.email, access_control), now)
           new == SelectById(ins.users, ins.lastrowid)
           out == LoginSetSession([rq[r] EXCEPT !.conn = "closed"], new)
       IN  IF ins.error # NULL
           THEN /\ rq' = [rq EXCEPT ![r] = Caught(@, ins.error)]
                /\ last_call' = Completed(r, NoRow, users)
                /\ UNCHANGED <<users, session>>
           ELSE IF "lastrowid" \notin ConnectionAttributes
           THEN /\ rq' = [rq EXCEPT ![r] = Caught(@, "AttributeError")]
                /\ last_call' = Completed(r, NoRow, users)
                /\ UNCHANGED <<users, session>>
           ELSE /\ users' = ins.users
                /\ last_call' = Completed(r, new, ins.users)
                /\ rq' = [rq EXCEPT ![r] = out.rq]
                /\ session' = [session EXCEPT ![r] = out.session]
    /\ UNCHANGED <<env, schema, app, access_control, supabase, logins, linked,
                   inits>>

-----------------------------------------------------------------------------
(* authentication.py, app.py: the dashboard behind login_required, logout *)

\* The decorator with its test the wrong way round: `in` where the code has
\* `not in`.
login_required_inverted(sess) == ~Has(sess, "user")

\* login_required, lines 25-27: the wrapped function is called when the
\* session holds "user".
login_required(sess) == Has(sess, "user")

\* security.csrf_protect, the decorator of clear_session: token handling is
\* outside the core, and the decorated function is called as it stands.
csrf_protect(result) == result

\* clear_session without its session.clear(): the session stays as it is.
clear_session_kept(sess) == csrf_protect(sess)

\* clear_session: session.clear()
clear_session(sess) == csrf_protect(<<>>)

\* GET /dashboard.  Without "user" in the session the decorator answers
\* with the redirect to login and the view function is not called.  The view
\* function renders dashboard.html, with the message of its except clause
\* when reading the figures failed.
Dashboard(r) ==
    /\ Serving
    /\ rq[r].pc = "idle"
    /\ IF login_required(session[r])
       THEN \E failed \in BOOLEAN :
              rq' = [rq EXCEPT ![r] =
                       Ended([@ EXCEPT !.route = "dashboard",
                                       !.ran = "dashboard"], NULL,
                             IF failed THEN "Error loading dashboard"
                             ELSE NULL,
                             "dashboard.html")]
       ELSE rq' = [rq EXCEPT ![r] =
                     Ended([@ EXCEPT !.route = "dashboard"], NULL, NULL,
                           "redirect login")]
    /\ UNCHANGED <<env, schema, users, app, access_control, supabase, session,
                   now, logins, last_call, linked, inits>>

\* GET /logout, lines 217-228.  With a Supabase client and a session
\* artifact, sign_out() is tried, and its exception only logged; the session
\* is cleared either way.
Logout(r) ==
    /\ Serving
    /\ rq[r].pc = "idle"
    /\ IF supabase.client /\ Has(session[r], "user")
       THEN \/ supabase' = SignOut(supabase)
            \/ UNCHANGED supabase
       ELSE UNCHANGED supabase
    /\ session' = [session EXCEPT ![r] = clear_session(@)]
    /\ rq' = [rq EXCEPT ![r] =
                 Ended([@ EXCEPT !.route = "logout"], NULL,
                       "You have been logged out", "redirect login")]
    /\ UNCHANGED <<env, schema, users, app, access_control, now, logins,
                   last_call, linked, inits>>

-----------------------------------------------------------------------------
(* authentication.py: admin_required, api_auth_required, feature_required *)

\* The decorator without the test of the role: every signed-in user
\* proceeds.
admin_required_any_user(sess) ==
    IF ~Has(sess, "user") THEN "redirect login" ELSE "proceed"

\* admin_required, lines 37-45: what the decorator does with the session.
admin_required(sess) ==
    IF ~Has(sess, "user") THEN "redirect login"
    ELSE IF ~Get(Item(sess, "user"), "is_admin", FALSE)
    THEN "redirect unauthorized"
    ELSE "proceed"

\* The decorator answering as login_required does: with the redirect.
api_auth_required_redirect(sess) ==
    IF ~Has(sess, "user") THEN "redirect login" ELSE "proceed"

\* api_auth_required, lines 54-57: the JSON error with status 401, or the
\* call of the view.
api_auth_required(sess) ==
    IF ~Has(sess, "user") THEN "401 Authentication required" ELSE "proceed"

\* database.get_user_feature_visibility(user_id, feature_name): the live
\* lookup in the feature visibility store returns a truth value, or raises
\* when the store cannot be reached.
get_user_feature_visibility == {"True", "False", "raises"}

\* feature_required, lines 67-83: what the decorator does with the session
\* and the outcome of the lookup.  The lookup is called in no try block: what
\* it raises leaves the decorator.
feature_required(sess, visible) ==
    IF ~Has(sess, "user") THEN "redirect login"
    ELSE IF visible = "raises" THEN "raise"
    ELSE IF visible = "False" THEN "redirect unauthorized"
    ELSE "proceed"

\* A request of a view behind admin_required (the views of routes.admin).
AdminView(r) ==
    /\ Serving
    /\ rq[r].pc = "idle"
    /\ LET q == [rq[r] EXCEPT !.route = "admin"]
           outcome == admin_required(session[r])
       IN  rq' = [rq EXCEPT ![r] =
                    IF outcome = "proceed"
                    THEN Ended([q EXCEPT !.ran = "admin"], NULL, NULL,
                               "view")
                    ELSE Ended(q, NULL, NULL, outcome)]
    /\ UNCHANGED <<env, schema, users, app, access_control, supabase, session,
                   now, logins, last_call, linked, inits>>

\* A request of a view behind api_auth_required.
ApiView(r) ==
    /\ Serving
    /\ rq[r].pc = "idle"
    /\ LET q == [rq[r] EXCEPT !.route = "api"]
           outcome == api_auth_required(session[r])
       IN  rq' = [rq EXCEPT ![r] =
                    IF outcome = "proceed"
                    THEN Ended([q EXCEPT !.ran = "api"], NULL, NULL, "view")
                    ELSE Ended(q, NULL, NULL, outcome)]
    /\ UNCHANGED <<env, schema, users, app, access_control, supabase, session,
                   now, logins, last_call, linked, inits>>

\* A request of a view behind feature_required(name).  An exception that
\* leaves the decorator is handled by nobody in the application: Flask
\* answers with status 500.
FeatureView(r) ==
    /\ Serving
    /\ rq[r].pc = "idle"
    /\ \E visible \in get_user_feature_visibility :
         LET q == [rq[r] EXCEPT !.route = "feature",
                                !.lookup = IF Has(session[r], "user")
                                           THEN visible ELSE NULL]
             outcome == feature_required(session[r], visible)
         IN  rq' = [rq EXCEPT ![r] =
                      IF outcome = "proceed"
                      THEN Ended([q EXCEPT !.ran = "feature"], NULL, NULL,
                                 "view")
                      ELSE IF outcome = "raise"
                      THEN Ended(q, "Exception", NULL,
                                 "500 Internal Server Error")
                      ELSE Ended(q, NULL, NULL, outcome)]
    /\ UNCHANGED <<env, schema, users, app, access_control, supabase, session,
                   now, logins, last_call, linked, inits>>

-----------------------------------------------------------------------------
(* The specification: one process start, then logins *)

Next ==
    \/ InitDbCreate
    \/ RunMigration
    \/ InitDbCommit
    \/ CreateApp
    \/ \E r \in Clients : LoginPost(r, MaxLogins)
    \/ \E r \in Clients : LoginDenied(r)
    \/ \E r \in Clients : SelectUserBySupabaseId(r)
    \/ \E r \in Clients : SelectUserByEmail(r)
    \/ \E r \in Clients : LinkSupabaseId(r)
    \/ \E r \in Clients : ReselectUser(r)
    \/ \E r \in Clients : UpdateUser(r)
    \/ \E r \in Clients : InsertNewUser(r)
    \/ \E r \in Clients : EndRequest(r)

Spec == Init /\ [][Next]_vars

-----------------------------------------------------------------------------
(* The specification of one client: logins one after the other, requests
   of the dashboard, logouts *)

\* The client
Caller == "c1"

NextSession ==
    \/ InitDbCreate
    \/ RunMigration
    \/ InitDbCommit
    \/ CreateApp
    \/ LoginPost(Caller, MaxCalls)
    \/ LoginDenied(Caller)
    \/ SelectUserBySupabaseId(Caller)
    \/ SelectUserByEmail(Caller)
    \/ LinkSupabaseId(Caller)
    \/ ReselectUser(Caller)
    \/ UpdateUser(Caller)
    \/ InsertNewUser(Caller)
    \/ EndRequest(Caller)
    \/ Dashboard(Caller)
    \/ Logout(Caller)

SpecSession == Init /\ [][NextSession]_vars

-----------------------------------------------------------------------------
(* The specification of the guards: one client logs in and requests the
   guarded views *)

NextGuards ==
    \/ InitDbCreate
    \/ RunMigration
    \/ InitDbCommit
    \/ CreateApp
    \/ LoginPost(Caller, MaxLogins)
    \/ LoginDenied(Caller)
    \/ SelectUserBySupabaseId(Caller)
    \/ SelectUserByEmail(Caller)
    \/ LinkSupabaseId(Caller)
    \/ ReselectUser(Caller)
    \/ UpdateUser(Caller)
    \/ InsertNewUser(Caller)
    \/ EndRequest(Caller)
    \/ Logout(Caller)
    \/ AdminView(Caller)
    \/ ApiView(Caller)
    \/ FeatureView(Caller)

SpecGuards == Init /\ [][NextGuards]_vars

-----------------------------------------------------------------------------
(* The specification of logout: one client logs in, logs out and asks for
   the guarded views *)

NextLogout ==
    \/ InitDbCreate
    \/ RunMigration
    \/ InitDbCommit
    \/ CreateApp
    \/ LoginPost(Caller, MaxLogins)
    \/ LoginDenied(Caller)
    \/ SelectUserBySupabaseId(Caller)
    \/ SelectUserByEmail(Caller)
    \/ LinkSupabaseId(Caller)
    \/ ReselectUser(Caller)
    \/ UpdateUser(Caller)
    \/ InsertNewUser(Caller)
    \/ EndRequest(Caller)
    \/ Logout(Caller)
    \/ Dashboard(Caller)
    \/ AdminView(Caller)
    \/ FeatureView(Caller)

SpecLogout == Init /\ [][NextLogout]_vars

-----------------------------------------------------------------------------
(* The specification of startup: the process is started MaxInitRuns times
   against a store an earlier version of the application left *)

\* What a store may hold of table t when the process starts: nothing, or
\* the table with any of the columns a migration adds to it missing.
StoredTables(t) ==
    {<<>>} \cup
    {Without(FreshSchema[t], ns) :
        ns \in SUBSET {Migrations[i].col.name :
                         i \in {k \in 1..Len(Migrations) :
                                   Migrations[k].table = t}}}

StoredSchemas ==
    { [users |-> u, shopping_items |-> s, chores |-> c, expiry_items |-> e,
       bills |-> b, settings |-> g] :
        u \in StoredTables("users"), s \in StoredTables("shopping_items"),
        c \in StoredTables("chores"), e \in StoredTables("expiry_items"),
        b \in StoredTables("bills"), g \in StoredTables("settings") }

InitStartup ==
    /\ env \in [ADMIN_EMAILS : AdminEnvs, ALLOWED_EMAILS : AllowedEnvs,
                SUPABASE : BOOLEAN, READONLY : {FALSE}]
    /\ schema \in StoredSchemas
    /\ users = {}
    /\ app = [pc |-> "init_db", mig |-> 1, log |-> <<>>, workers |-> 0]
    /\ access_control = [allowed_emails |-> <<>>, admin_emails |-> <<>>]
    /\ supabase = NoClient
    /\ rq = [r \in Clients |-> IdleRequest]
    /\ session = [r \in Clients |-> <<>>]
    /\ now = 1
    /\ logins = 0
    /\ last_call = NoCall
    /\ linked = {}
    /\ inits = <<>>

NextStartup ==
    \/ InitDbCreate
    \/ RunMigration
    \/ InitDbCommit
    \/ CreateApp
    \/ Restart

SpecStartup == InitStartup /\ [][NextStartup]_vars

-----------------------------------------------------------------------------
(* The specification of startup on a store file the process may not write *)

InitReadOnly ==
    /\ env \in [ADMIN_EMAILS : AdminEnvs, ALLOWED_EMAILS : AllowedEnvs,
                SUPABASE : BOOLEAN, READONLY : {TRUE}]
    /\ schema \in StoredSchemas
    /\ users = {}
    /\ app = [pc |-> "init_db", mig |-> 1, log |-> <<>>, workers |-> 0]
    /\ access_control = [allowed_emails |-> <<>>, admin_emails |-> <<>>]
    /\ supabase = NoClient
    /\ rq = [r \in Clients |-> IdleRequest]
    /\ session = [r \in Clients |-> <<>>]
    /\ now = 1
    /\ logins = 0
    /\ last_call = NoCall
    /\ linked = {}
    /\ inits = <<>>

NextReadOnly ==
    \/ InitDbCreate
    \/ RunMigration
    \/ InitDbCommit
    \/ CreateApp
    \/ Restart

SpecReadOnly == InitReadOnly /\ [][NextReadOnly]_vars

-----------------------------------------------------------------------------
(* The specification of two worker processes on one store: the first serves
   the logins of one client while the second starts *)

NextWorkers ==
    \/ InitDbCreate
    \/ RunMigration
    \/ InitDbCommit
    \/ CreateApp
    \/ StartWorker
    \/ LoginPost(Caller, MaxLogins)
    \/ LoginDenied(Caller)
    \/ EndRequest(Caller)
    \/ SelectUserBySupabaseId(Caller)
    \/ SelectUserByEmail(Caller)
    \/ LinkSupabaseId(Caller)
    \/ ReselectUser(Caller)
    \/ UpdateUser(Caller)
    \/ InsertNewUser(Caller)

SpecWorkers == Init /\ [][NextWorkers]_vars

-----------------------------------------------------------------------------
(* The claims *)

\* The session artifact of client r, when it has one.
UserOf(r) == Item(session[r], "user")

\* The login of client r got past sign-in with a user.
Authenticated(r) == rq[r].route = "login" /\ rq[r].gate # "none"

\* The step ends a get_or_create_supabase_user call of client r.
CallEnds(r) == InCall(r) /\ rq'[r].pc = "done"

\* C1: two calls of get_or_create_supabase_user in sequence with the same
\* identity (external id, email) both return a record, with the same local
\* user id, and the table has as many rows after the second call as after
\* the first.
C1_TwiceInSequence ==
    [][\A r \in Clients :
         ( /\ CallEnds(r)
           /\ last_call.n >= 1
           /\ last_call'.in_sequence
           /\ last_call'.id = last_call.id
           /\ last_call'.email = last_call.email )
         => /\ Found(last_call.returned)
            /\ Found(last_call'.returned)
            /\ last_call'.returned.id = last_call.returned.id
            /\ last_call'.rows = last_call.rows]_vars

\* The users rows with email e.
RowsWithEmail(tbl, e) == {u \in tbl : u.email = e}

\* Clients r and q are both about to insert a row for the same email.
BothInserting(r, q) ==
    /\ r # q
    /\ rq[r].pc = "insert" /\ rq[q].pc = "insert"
    /\ rq[r].res_user.email = rq[q].res_user.email

\* C2: when two first-time logins for the same new email have both passed
\* the lookups before either inserts, the one that inserts first creates the
\* one row for that email and ends with a session artifact carrying its id;
\* the one that inserts after it finds the row there, and ends with a session
\* artifact carrying that row's id, the table still holding one row for the
\* email.
\* The step ends the login of r with the one row for its email in the table
\* and a session artifact carrying that row's id.
EndsOnTheRow(r) ==
    /\ rq'[r].pc = "done"
    /\ Cardinality(RowsWithEmail(users', rq[r].res_user.email)) = 1
    /\ Has(session'[r], "user")
    /\ \E u \in RowsWithEmail(users', rq[r].res_user.email) :
          Item(Item(session'[r], "user"), "id") = u.id

C2_ConcurrentFirstLogins ==
    [][\A r \in Clients :
         /\ ( ( /\ \E q \in Clients : BothInserting(r, q)
                /\ RowsWithEmail(users, rq[r].res_user.email) = {}
                /\ rq'[r] # rq[r] )
              => EndsOnTheRow(r) )
         /\ ( ( /\ rq[r].pc = "insert"
                /\ RowsWithEmail(users, rq[r].res_user.email) # {}
                /\ rq'[r] # rq[r] )
              => EndsOnTheRow(r) )]_vars

\* The address is outside the allowed list and outside the admin list.
Outside(email) ==
    /\ ~In(Lower(email), access_control.allowed_emails)
    /\ ~In(Lower(email), access_control.admin_emails)

\* C3: with a non-empty allowed list, a login the provider authenticated for
\* an address outside the allowed list and the admin list is denied: it goes
\* to the denial, it never begins reconciliation (it opens no connection to
\* the store), and its client gets no session artifact.
C3_GateDenial ==
    \A r \in Clients :
        /\ ( ( /\ rq[r].res_user # NoUser
               /\ access_control.allowed_emails # <<>>
               /\ Outside(rq[r].res_user.email) )
             => ( rq[r].pc = "sign_out" /\ rq[r].gate = "denied" ) )
        /\ ( rq[r].gate = "denied"
             => ( /\ ~InCall(r)
                  /\ rq[r].conn = "none"
                  /\ rq[r].user = NoRow
                  /\ ~Has(session[r], "user") ) )

\* C3, witness: a login ended with the denial.
C3_Witness ==
    \E r \in Clients :
        /\ rq[r].pc = "done" /\ rq[r].gate = "denied"
        /\ rq[r].flash = "Access denied. You are not authorized."

\* C4: with an empty allowed list, every login the provider authenticated
\* passes the gate, whatever the admin list holds; when the admin list is
\* empty too, the login ends with a session artifact whose is_admin is false.
C4_EmptyAllowedList ==
    \A r \in Clients :
        (Authenticated(r) /\ access_control.allowed_emails = <<>>)
        => ( /\ rq[r].gate = "allowed"
             /\ ( (rq[r].pc = "done" /\ access_control.admin_emails = <<>>)
                  => ( /\ Has(session[r], "user")
                       /\ Item(UserOf(r), "is_admin") = FALSE ) ) )

\* The allowed list is not empty, and the address is in the admin list and
\* not in the allowed list.
AdminOutsideAllowed(email) ==
    /\ access_control.allowed_emails # <<>>
    /\ ~In(Lower(email), access_control.allowed_emails)
    /\ In(Lower(email), access_control.admin_emails)

\* C5: with a non-empty allowed list, a login the provider authenticated for
\* an address in the admin list and not in the allowed list passes the gate
\* and ends with a session artifact whose is_admin is true, whether the
\* user has a row already or not.
C5_AdminOutsideAllowedList ==
    [][\A r \in Clients :
         /\ ( ( /\ rq'[r].res_user # NoUser
                /\ AdminOutsideAllowed(rq'[r].res_user.email) )
              => rq'[r].gate = "allowed" )
         /\ ( ( /\ CallEnds(r)
                /\ AdminOutsideAllowed(rq[r].res_user.email) )
              => ( /\ Has(session'[r], "user")
                   /\ Item(Item(session'[r], "user"), "is_admin") = TRUE ) )
      ]_vars

\* C6: a login the gate denied has called sign_out by the time it answers,
\* its client has no session artifact, and when it reports the denial the
\* provider session its sign-in opened is no longer live.
C6_SignOutBeforeDenial ==
    \A r \in Clients :
        (rq[r].pc = "done" /\ rq[r].gate = "denied")
        => ( /\ rq[r].signed_out
             /\ ~Has(session[r], "user")
             /\ ( rq[r].flash = "Access denied. You are not authorized."
                  => supabase.sessions[r] # "live" ) )

\* C7: a call of get_or_create_supabase_user with an address whose lower-case
\* form is in the admin list returns a record with is_admin true.
C7_AdminFlagReturned ==
    ( /\ last_call.n >= 1
      /\ In(Lower(last_call.email), access_control.admin_emails) )
    => ( /\ Found(last_call.returned)
         /\ last_call.returned.is_admin = TRUE )

\* C8: the first reconciliation that matches a row without external id by
\* email writes the external id to it; a reconciliation with an external id
\* that was linked to a row before it began finds that row by the lookup on
\* supabase_id: it runs neither the lookup by email nor the backfill UPDATE,
\* and the row it works on is the one linked.
C8_BackfillOnce ==
    \A r \in Clients :
        /\ ( rq[r].pc = "reselect"
             => \E u \in users : /\ u.id = rq[r].user.id
                                 /\ u.supabase_id = rq[r].res_user.id )
        /\ ( (InCall(r) /\ rq[r].linked_before # 0)
             => ( /\ rq[r].pc \in {"select_by_supabase_id", "update"}
                  /\ ~rq[r].select_by_email
                  /\ ~rq[r].linked
                  /\ ( rq[r].pc = "update"
                       => rq[r].user.id = rq[r].linked_before ) ) )

\* C9: every run of init_db ends without an error, and a run after the
\* first leaves the schema, the tables and their columns, as the run before
\* it left it; from an empty store and from one whose tables lack the
\* migrated columns.
C9_InitDbTwice ==
    \A i \in 1..Len(inits) :
        /\ inits[i].error = NULL
        /\ ( i > 1 => inits[i].schema = inits[i - 1].schema )

\* C9, witness: init_db ran twice on a store of an earlier version that had
\* the tables without the migrated columns.
C9_Witness ==
    /\ Len(inits) >= 2
    /\ inits[1].log = <<"applied", "applied", "applied", "applied">>
    /\ inits[2].log = <<"already applied", "already applied",
                        "already applied", "already applied">>

\* C10: a request of a view behind login_required runs the view if and only
\* if the session holds a user artifact; without one the answer is the
\* redirect to login and the view has not run.
C10_LoginRequired ==
    \A r \in Clients :
        (rq[r].pc = "done" /\ rq[r].route = "dashboard")
        => ( /\ ( (rq[r].ran = "dashboard") <=> Has(session[r], "user") )
             /\ ( ~Has(session[r], "user")
                  => ( /\ rq[r].response = "redirect login"
                       /\ rq[r].ran = NULL ) ) )

\* C10, witness: the dashboard served to a client with a session artifact.
C10_Witness ==
    \E r \in Clients :
        /\ rq[r].pc = "done" /\ rq[r].route = "dashboard"
        /\ rq[r].ran = "dashboard" /\ Has(session[r], "user")

\* The request of client r for the views of route `route` is answered.
Answered(r, route) == rq[r].pc = "done" /\ rq[r].route = route

\* C11: a request of a view behind admin_required ends in exactly one of
\* three ways: without a session artifact, the redirect to login; with an
\* artifact whose is_admin is false or missing, the redirect to the
\* unauthorized page; with an artifact whose is_admin is true, the view runs.
\* The view never runs without an artifact whose is_admin is true.
C11_AdminRequired ==
    \A r \in Clients :
        Answered(r, "admin")
        => LET signed_in == Has(session[r], "user")
               admin == signed_in /\ Get(UserOf(r), "is_admin", FALSE) = TRUE
           IN  /\ ( ~signed_in
                    => ( /\ rq[r].response = "redirect login"
                         /\ rq[r].ran = NULL ) )
               /\ ( (signed_in /\ ~admin)
                    => ( /\ rq[r].response = "redirect unauthorized"
                         /\ rq[r].ran = NULL ) )
               /\ ( admin
                    => ( /\ rq[r].ran = "admin"
                         /\ rq[r].response = "view" ) )

\* C11, witness: a signed-in client whose artifact has is_admin false was
\* sent to the unauthorized page.
C11_Witness ==
    \E r \in Clients :
        /\ Answered(r, "admin")
        /\ Has(session[r], "user")
        /\ Item(UserOf(r), "is_admin") = FALSE
        /\ rq[r].response = "redirect unauthorized"

\* C12: a request of a view behind api_auth_required without a user
\* artifact in the session is answered with the JSON error of status 401,
\* never with a redirect, and the view does not run; with the artifact the
\* view runs.
C12_ApiAuthRequired ==
    \A r \in Clients :
        Answered(r, "api")
        => /\ ( ~Has(session[r], "user")
                => ( /\ rq[r].response = "401 Authentication required"
                     /\ rq[r].ran = NULL ) )
           /\ ( Has(session[r], "user") => rq[r].ran = "api" )

\* C12, witness: a client without a session was answered with status 401.
C12_Witness ==
    \E r \in Clients :
        /\ Answered(r, "api")
        /\ ~Has(session[r], "user")
        /\ rq[r].response = "401 Authentication required"

\* C13: when the visibility lookup raises during a request of a signed-in
\* client for a view behind feature_required, the view runs: the request
\* ends neither in a redirect nor in an unhandled error.
C13_FeatureFailOpen ==
    \A r \in Clients :
        ( /\ Answered(r, "feature")
          /\ Has(session[r], "user")
          /\ rq[r].lookup = "raises" )
        => ( /\ rq[r].ran = "feature"
             /\ rq[r].exception = NULL
             /\ rq[r].response = "view" )

\* C14: once a store operation is over, by return or by exception, the
\* connection it opened is closed: no request that is answered has left a
\* connection behind that get_or_create_supabase_user opened and did not
\* close.
C14_ConnectionReleased ==
    \A r \in Clients :
        ~InCall(r) => rq[r].conn \in {"none", "closed"}

\* C15: no two rows of the users table have the same email, and no two have
\* the same external id other than NULL; on a fresh store and on a legacy
\* store that got the supabase_id column by migration.
C15_UniqueEmailAndExternalId ==
    \A u, v \in users :
        u.id # v.id
        => ( /\ u.email # v.email
             /\ ( u.supabase_id # NULL => u.supabase_id # v.supabase_id ) )

\* C16: a client has a session artifact after a login only if the provider
\* authenticated, the gate allowed and reconciliation returned (its
\* connection opened and closed, no exception): a login that found the
\* provider unavailable, was refused, was denied or saw reconciliation raise
\* ends without one.  The id in a session artifact is the id of a row of the
\* users table.
C16_SessionAfterThreeSteps ==
    \A r \in Clients :
        /\ ( Has(session[r], "user")
             => \E u \in users : u.id = Item(UserOf(r), "id") )
        /\ ( Answered(r, "login")
             => ( Has(session[r], "user")
                  <=> ( /\ rq[r].gate = "allowed"
                        /\ rq[r].conn = "closed"
                        /\ rq[r].exception = NULL ) ) )

\* C16, witness: a login ended with a session artifact.
C16_Witness ==
    \E r \in Clients :
        /\ Answered(r, "login")
        /\ Has(session[r], "user")
        /\ rq[r].response = "redirect dashboard"

\* C17: a login that met an exception after the call of the provider began
\* ends with the login page and the generic message; the exception does not
\* leave login.
C17_ExceptionsCaught ==
    \A r \in Clients :
        (Answered(r, "login") /\ rq[r].exception # NULL)
        => ( /\ rq[r].response = "login.html"
             /\ rq[r].flash = "Invalid email or password" )

\* C17, witness: a login ended by the exception reconciliation raised.
C17_Witness ==
    \E r \in Clients :
        /\ Answered(r, "login")
        /\ rq[r].exception = "AttributeError"
        /\ rq[r].response = "login.html"

\* A completed or broken-off init_db run in which a migration failed with an
\* error outside the already-applied class.
MigrationFailed(run) == In("failed", run.log)

InProgress(r) == rq[r].pc \notin {"idle", "done"}

\* C19: schema initialisation and the migrations are over before a handler
\* touches the store, and no statement of init_db runs while a request is
\* in progress, also with more than one process on the store: a step of
\* init_db is taken only when no request is in progress, and a request is
\* in progress only after an init_db run has completed.
C19_MigrationsBeforeTraffic ==
    [][ /\ (InitDbCreate \/ RunMigration) =>
              \A r \in Clients : ~InProgress(r)
        /\ \A r \in Clients : InProgress(r)' => Len(inits') >= 1 ]_vars

\* C20: when get_or_create_supabase_user found a row, the record it returns
\* equals the stored row as it is when the call returns: full_name, is_admin
\* and last_login are those the UPDATE wrote.
C20_ReturnedRecordRefreshed ==
    [][\A r \in Clients :
         (rq[r].pc = "update" /\ rq'[r].pc = "done")
         => last_call'.returned = SelectById(users', rq[r].user.id)]_vars

\* C21: when a reconciliation completes, the stored is_admin of the row it
\* worked on is true exactly when the lower-cased email of the identity is
\* in the admin list, whatever the flag was before.
C21_AdminFlagRecomputed ==
    [][\A r \in Clients :
         (InCall(r) /\ rq'[r].pc = "done" /\ Found(last_call'.returned))
         => ( SelectById(users', last_call'.returned.id).is_admin
              = In(Lower(rq[r].res_user.email),
                   access_control.admin_emails) )]_vars

\* C21, witness: a completed reconciliation whose row was admin before (the
\* record returned is the row as it was read) and is stored as non-admin,
\* its email being outside the admin list.
C21_Witness ==
    /\ last_call.n >= 1
    /\ Found(last_call.returned)
    /\ last_call.returned.is_admin = TRUE
    /\ ~In(Lower(last_call.email), access_control.admin_emails)
    /\ SelectById(users, last_call.returned.id).is_admin = FALSE

\* Client r's request of route `route` is handled in this step.
Handles(r, route) ==
    rq[r].pc = "idle" /\ rq'[r].pc = "done" /\ rq'[r].route = route

\* C22: when a logout request completes the session holds no user artifact,
\* whether sign_out() of the provider succeeded or raised, and a request
\* that finds the session so, of a view behind login_required,
\* admin_required or feature_required, is answered with the redirect to
\* login without the view being run.
C22_LogoutClearsSession ==
    [][\A r \in Clients :
         /\ Handles(r, "logout") => ~Has(session'[r], "user")
         /\ \A route \in {"dashboard", "admin", "feature"} :
               (Handles(r, route) /\ ~Has(session[r], "user"))
               => ( /\ rq'[r].response = "redirect login"
                    /\ rq'[r].ran = NULL )]_vars

\* C22, witness: a login had put the artifact into the session (its
\* reconciliation returned a row), the client logged out while sign_out()
\* raised (the provider session is still the client's current one), and the
\* request of the dashboard that followed was redirected to login.
C22_Witness ==
    \E r \in Clients :
        /\ Answered(r, "dashboard")
        /\ rq[r].response = "redirect login"
        /\ session[r] = <<>>
        /\ Found(last_call.returned)
        /\ supabase.current = r

\* C23: reconciliation never changes an external id that is set: a row
\* whose supabase_id is not null has the same supabase_id after every step,
\* and the backfill UPDATE writes only to rows whose supabase_id is null.
C23_ExternalIdNeverChanged ==
    [][\A u \in users : \A v \in users' :
         (u.id = v.id /\ u.supabase_id # NULL)
         => v.supabase_id = u.supabase_id]_vars

\* Client r's reconciliation, which matched a row, takes a step.
MatchedStep(r) ==
    rq[r].pc \in {"link", "reselect", "update"} /\ rq'[r] # rq[r]

\* C24: a reconciliation that matched a row leaves the row's id, email,
\* username and created_at and every other row as they are: each of its
\* steps keeps the rows of the table, changes no row but the matched one,
\* and of that one nothing but supabase_id in the backfill UPDATE of the
\* email fallback, and full_name, is_admin and last_login in the UPDATE
\* after it.
C24_MatchedRowFrame ==
    [][\A r \in Clients :
         MatchedStep(r)
         => /\ {v.id : v \in users'} = {u.id : u \in users}
            /\ Cardinality(users') = Cardinality(users)
            /\ \A u \in users : \A v \in users' :
                 (u.id = v.id)
                 => IF u.id # rq[r].user.id THEN v = u
                    ELSE /\ v.email = u.email
                         /\ v.username = u.username
                         /\ v.created_at = u.created_at
                         /\ (rq[r].pc # "link"
                               => v.supabase_id = u.supabase_id)
                         /\ (rq[r].pc # "update"
                               => /\ v.full_name = u.full_name
                                  /\ v.is_admin = u.is_admin
                                  /\ v.last_login = u.last_login)]_vars

\* C24, witness: a reconciliation through the email fallback has completed
\* on a table of two rows: the matched row carries the external id and a
\* new last_login, the other row is as the legacy installation left it.
C24_Witness ==
    /\ last_call.n >= 1
    /\ Found(last_call.returned)
    /\ Cardinality(users) = 2
    /\ \E u, o \in users :
          /\ u.id = last_call.returned.id
          /\ u.supabase_id = last_call.id
          /\ u.last_login # last_call.returned.last_login
          /\ u.email = last_call.returned.email
          /\ o.id # u.id
          /\ o.supabase_id = NULL
          /\ o.last_login = 0

====
